---- MODULE Spec2Model ----
(***************************************************************************)
(* MonorepoDependenciesProvider (src/src/dependencyProvider.ts): the tree  *)
(* data provider of a monorepo's packages and their in-workspace           *)
(* dependencies.  The provider's fields are the variables; every public    *)
(* method is one action that runs the whole handler.  The file system, the *)
(* configuration and the helper modules the provider imports are the       *)
(* environment (disk, override).                                           *)
(***************************************************************************)
EXTENDS Integers, Sequences, FiniteSets, TLC

VARIABLES
  workspaceRoot,     \* this.workspaceRoot
  workspacePkgJson,  \* this.workspacePkgJson (its name field, or Absent)
  workspaceTool,     \* this.workspaceTool
  rootPkg,           \* this.rootPkg
  graph,             \* this.graph
  items,             \* this.items, a Map in insertion order
  activePackage,     \* this.activePackage
  disk,              \* the manifests on disk: workspace root -> layout
  override,          \* configuration monorepoTools.workspaceToolOverride
  loaded,            \* a loadDependencyTree call has completed without throwing
  last,              \* the last step: method, argument, outcome, result, the
                     \* _onDidChangeTreeData.fire() calls it made and the
                     \* window.showInformationMessage notices it showed
  calls              \* the async calls suspended at their await, oldest first

vars == <<workspaceRoot, workspacePkgJson, workspaceTool, rootPkg, graph, items,
          activePackage, disk, override, loaded, last, calls>>

provider == <<workspaceRoot, workspacePkgJson, workspaceTool, rootPkg, graph,
              items, activePackage>>

----------------------------------------------------------------------------
(* Values *)

Absent == "absent"

Roots == {"r1", "r2"}

\* name field of the package.json at a workspace root
RootManifestName(root) == IF root = "r1" THEN "mono1" ELSE "mono2"

Pkg(n, d) == [name |-> n, deps |-> d]

\* The member packages a workspace can hold on disk, in discovery order, each
\* with the dependency names its manifest declares.
Layout(id) ==
  CASE id = "chain" -> << Pkg("app", <<"lib-a">>),
                          Pkg("lib-a", <<"lib-b", "left-pad">>),
                          Pkg("lib-b", << >>) >>
    [] id = "cycle" -> << Pkg("lib-a", <<"app">>),
                          Pkg("app", <<"app", "lib-b", "lib-a">>),
                          Pkg("lib-b", << >>) >>
    [] id = "small" -> << Pkg("app", <<"lib-a">>) >>
    [] OTHER        -> << >>

LayoutIds == {"chain", "cycle", "small", "empty"}

\* The layouts each workspace goes through
LayoutsOf(root) ==
  IF root = "r1" THEN {"chain", "small", "empty"} ELSE {"cycle"}

\* undefined, where a DependencyTreeItem is expected
NoNode == [name |-> Absent, children |-> << >>, tool |-> Absent, root |-> FALSE,
           fresh |-> FALSE, desc |-> -1, state |-> Absent]

\* File names handed to setActiveFile: a file in a directory of a workspace,
\* or a file outside every workspace.
Orphan == [root |-> Absent, dir |-> "tmp"]

NoFile == [root |-> Absent, dir |-> Absent]

Files == {[root |-> r, dir |-> d] : r \in Roots, d \in {"app", "lib-a"}}
           \cup {Orphan}

Range(s) == {s[i] : i \in 1..Len(s)}

----------------------------------------------------------------------------
(* Collaborators *)

\* getWorkspaces(root): the packages of the workspace, in discovery order
getWorkspaces(d, root) == Layout(d[root])

\* getDependencyTree(workspaces): package name -> in-workspace dependencies
getDependencyTree(workspaces) ==
  LET names == {workspaces[i].name : i \in 1..Len(workspaces)}
      entry(n) == workspaces[CHOOSE i \in 1..Len(workspaces) : workspaces[i].name = n]
  IN  [n \in names |->
         SelectSeq(entry(n).deps, LAMBDA m : m \in names /\ m # n)]

\* getWorkspaceTool(root)
getWorkspaceTool(root) == IF root = "r1" THEN "yarn" ELSE Absent

\* a || b on strings
OrElse(a, b) == IF a # Absent THEN a ELSE b

\* getWorkspaceRoot(cwd) for the directory of a file
getWorkspaceRoot(file) == IF file.root \in Roots THEN file.root ELSE Absent

\* pkgUp({cwd}): the nearest package.json at or above the file's directory
pkgUp(d, file) ==
  IF file.root \notin Roots THEN NoFile
  ELSE IF \E i \in 1..Len(Layout(d[file.root])) :
            Layout(d[file.root])[i].name = file.dir
       THEN file
       ELSE [root |-> file.root, dir |-> "."]

\* readJson(path).name for a manifest that exists
readJsonName(path) ==
  IF path.dir = "." THEN RootManifestName(path.root) ELSE path.dir

\* Map.get on this.items
ItemsGet(its, name) ==
  IF \E i \in 1..Len(its) : its[i].name = name
  THEN its[CHOOSE i \in 1..Len(its) : its[i].name = name]
  ELSE NoNode

----------------------------------------------------------------------------
(* The provider *)

\* The ways one loadDependencyTree call can go: it completes, or one of its
\* steps throws (the enumeration, the tool detection, the construction of the
\* k-th tree item).
Fails(root) ==
  {<<"none", 0>>, <<"enumeration", 0>>, <<"tool", 0>>}
    \cup {<<"node", k>> : k \in 1..Len(getWorkspaces(disk, root))}

\* Object identity of tree items: an item is fresh while no later
\* loadDependencyTree call has built items; the call that builds new items
\* makes every item built before it a different, older object.
Older(node) == [node EXCEPT !.fresh = FALSE]

\* new DependencyTreeItem(workspaceInfo, state) for the i-th entry
TreeItem(workspaces, tree, tool, i) ==
  LET name == workspaces[i].name
      children == IF name \in DOMAIN tree THEN tree[name] ELSE << >>
  IN  [name |-> name, children |-> children, tool |-> tool, root |-> FALSE,
       fresh |-> TRUE, desc |-> -1,
       state |-> IF Len(children) > 0 THEN "Collapsed" ELSE "None"]

\* loadDependencyTree answering from this.items once it holds anything
loadDependencyTreeCached(root, fail) ==
  LET workspaces == getWorkspaces(disk, root)
      tree == getDependencyTree(workspaces)
      tool == OrElse(override, getWorkspaceTool(root))
      built == IF Len(items) > 0 THEN items
               ELSE [i \in 1..Len(workspaces) |-> TreeItem(workspaces, tree, tool, i)]
  IN  IF fail[1] = "none"
      THEN [threw |-> FALSE, assigned |-> Len(items) = 0, thisItems |-> built,
            items |-> built]
      ELSE [threw |-> TRUE, assigned |-> FALSE, thisItems |-> items,
            items |-> << >>]

\* loadDependencyTree(root): thisItems is this.items when the call ends, items
\* is the map the call returns when it does not throw.
loadDependencyTree(root, fail) ==
  LET workspaces == getWorkspaces(disk, root)
      tree == getDependencyTree(workspaces)
      tool == OrElse(override, getWorkspaceTool(root))
      built(k) == [i \in 1..k |-> TreeItem(workspaces, tree, tool, i)]
  IN  CASE fail[1] \in {"enumeration", "tool"} ->
             [threw |-> TRUE, assigned |-> FALSE, thisItems |-> items,
              items |-> << >>]
        [] fail[1] = "node" ->
             [threw |-> TRUE, assigned |-> TRUE,
              thisItems |-> built(fail[2] - 1), items |-> << >>]
        [] OTHER ->
             [threw |-> FALSE, assigned |-> TRUE,
              thisItems |-> built(Len(workspaces)),
              items |-> built(Len(workspaces))]

\* getRootItem without the root flag of its tree item
getRootItemUnflagged(its) ==
  [workspaceTool |-> OrElse(OrElse(override, getWorkspaceTool(workspaceRoot)), "npm run"),
   rootDependency |->
     [name |-> RootManifestName(workspaceRoot), children |-> << >>,
      tool |-> OrElse(override, getWorkspaceTool(workspaceRoot)),
      root |-> FALSE, fresh |-> TRUE, desc |-> Len(its), state |-> "Expanded"]]

\* getRootItem(items): the tree item it builds and the workspaceTool it stores
getRootItem(its) ==
  LET root == workspaceRoot
      tool == OrElse(override, getWorkspaceTool(root))
  IN  [workspaceTool |-> OrElse(tool, "npm run"),
       rootDependency |->
         [name |-> RootManifestName(root), children |-> << >>, tool |-> tool,
          root |-> TRUE, fresh |-> TRUE, desc |-> Len(its),
          state |-> "Expanded"]]

\* keys.map(...) taken in the order of the index instead of the order of keys
MapChildrenIndexOrder(element, its) ==
  [threw |-> FALSE,
   result |-> SelectSeq(its, LAMBDA node : node.name \in Range(element.children)),
   notices |-> << >>]

\* The keys.map(...) of getChildren for an element with children: the array
\* it returns and the notices it shows, or the TypeError of reading
\* dep.workspace of undefined while composing a notice.
MapChildren(element, its) ==
  LET keys == element.children
      circular == \E i \in 1..Len(keys) : keys[i] = element.name
      dep(i) == ItemsGet(its, keys[i])
      missing == {i \in 1..Len(keys) : dep(i) = NoNode}
      stop == IF circular /\ missing # {}
              THEN CHOOSE i \in missing : \A j \in missing : i <= j
              ELSE Len(keys) + 1
      shown == IF circular
               THEN [i \in 1..(stop - 1) |-> <<element.name, dep(i).name>>]
               ELSE << >>
  IN  [threw |-> stop <= Len(keys),
       result |-> IF stop <= Len(keys) THEN << >>
                  ELSE [i \in 1..Len(keys) |-> dep(i)],
       notices |-> shown]

\* The record of a call
Call(op, element, outcome, result, fired, shown) ==
  [op |-> op, element |-> element, outcome |-> outcome, result |-> result,
   fired |-> fired, notices |-> shown, afterRefresh |-> op = "getChildren" /\ last.op = "refreshGraph"]

\* statusText()
statusText ==
  IF workspacePkgJson # Absent
  THEN [loading |-> FALSE, name |-> workspacePkgJson, count |-> Len(items)]
  ELSE [loading |-> TRUE, name |-> Absent, count |-> -1]

\* titleText()
titleText ==
  IF workspacePkgJson = Absent
  THEN [loading |-> TRUE, name |-> Absent, count |-> -1]
  ELSE [loading |-> FALSE, name |-> "Dependency Graph", count |-> -1]

----------------------------------------------------------------------------
(* Construction *)

Init ==
  /\ workspaceRoot \in Roots
  /\ workspacePkgJson \in {Absent, RootManifestName(workspaceRoot)}
  /\ workspaceTool = Absent
  /\ rootPkg = NoNode
  /\ graph = << >>
  /\ items = << >>
  /\ activePackage = NoNode
  /\ disk \in {d \in [Roots -> LayoutIds] : \A r \in Roots : d[r] \in LayoutsOf(r)}
  /\ override \in {Absent, "lage"}
  /\ loaded = FALSE
  /\ last = [op |-> "new", element |-> NoNode, outcome |-> "ok",
             result |-> << >>, fired |-> 0, notices |-> << >>,
             afterRefresh |-> FALSE]
  /\ calls = << >>

----------------------------------------------------------------------------
(* Methods *)

\* getChildren(element); element = NoNode is the top-level call
GetChildren(element, fail) ==
  /\ LET load == loadDependencyTree(workspaceRoot, fail)
         its == load.items
         top == getRootItem(its)
         old(node) == IF load.assigned THEN Older(node) ELSE node
         mapped == MapChildren(element, its)
         threw == load.threw
                    \/ (element # NoNode /\ ~element.root
                          /\ Len(element.children) > 0 /\ mapped.threw)
         result ==
           CASE threw -> << >>
             [] element = NoNode /\ Len(its) = 0 -> << >>
             [] element = NoNode /\ Len(its) > 0 -> <<top.rootDependency>>
             [] element.root -> its
             [] Len(element.children) > 0 -> mapped.result
             [] OTHER -> << >>
         builtRoot == ~load.threw /\ element = NoNode /\ Len(its) > 0
         expanding == ~load.threw /\ element # NoNode /\ ~element.root
                        /\ Len(element.children) > 0
     IN  /\ items' = load.thisItems
         /\ loaded' = (loaded \/ ~load.threw)
         /\ workspaceTool' = IF builtRoot THEN top.workspaceTool ELSE workspaceTool
         /\ rootPkg' = IF builtRoot THEN top.rootDependency ELSE old(rootPkg)
         /\ activePackage' = old(activePackage)
         /\ last' = Call("getChildren", old(element),
                         IF threw THEN "threw" ELSE "ok", result, 0,
                         IF expanding THEN mapped.notices ELSE << >>)
  /\ UNCHANGED <<workspaceRoot, workspacePkgJson, graph, disk, override,
                 calls>>

\* getFirst(): the destructuring of items.entries().next().value throws a
\* TypeError when the map is empty
GetFirst(fail) ==
  /\ LET load == loadDependencyTree(workspaceRoot, fail)
         its == load.items
         old(node) == IF load.assigned THEN Older(node) ELSE node
         threw == load.threw \/ Len(its) = 0
     IN  /\ items' = load.thisItems
         /\ loaded' = (loaded \/ ~load.threw)
         /\ rootPkg' = old(rootPkg)
         /\ activePackage' = old(activePackage)
         /\ last' = Call("getFirst", NoNode, IF threw THEN "threw" ELSE "ok",
                         IF threw THEN << >> ELSE <<its[1]>>, 0, << >>)
  /\ UNCHANGED <<workspaceRoot, workspacePkgJson, workspaceTool, graph, disk,
                 override, calls>>

\* getTreeItem(element)
GetTreeItem(element) ==
  /\ last' = Call("getTreeItem", NoNode, "ok", <<element>>, 0, << >>)
  /\ UNCHANGED <<provider, disk, override, loaded, calls>>

\* refreshGraph(), which is refresh()
RefreshGraph ==
  /\ last' = Call("refreshGraph", NoNode, "ok", << >>, 1, << >>)
  /\ UNCHANGED <<provider, disk, override, loaded, calls>>

\* setActiveFile(filename)
SetActiveFile(file) ==
  LET packageForFilename == pkgUp(disk, file)
      root == getWorkspaceRoot(file)
  IN  IF packageForFilename = NoFile
      THEN \* readJson of no path throws before anything is stored
           /\ last' = Call("setActiveFile", NoNode, "threw", << >>, 0, << >>)
           /\ UNCHANGED <<provider, disk, override, loaded, calls>>
      ELSE /\ workspaceRoot' = root
           /\ workspacePkgJson' = RootManifestName(root)
           /\ activePackage' = ItemsGet(items, readJsonName(packageForFilename))
           /\ last' = Call("setActiveFile", NoNode, "ok", << >>,
                           IF root = workspaceRoot THEN 0 ELSE 1, << >>)
           /\ UNCHANGED <<workspaceTool, rootPkg, graph, items, disk, override,
                          loaded, calls>>

\* clearGraph()
ClearGraph ==
  /\ graph' = << >>
  /\ items' = << >>
  /\ last' = Call("clearGraph", NoNode, "ok", << >>, 0, << >>)
  /\ UNCHANGED <<workspaceRoot, workspacePkgJson, workspaceTool, rootPkg,
                 activePackage, disk, override, loaded, calls>>

\* statusText()
StatusText ==
  /\ last' = Call("statusText", NoNode, "ok", << >>, 0, << >>)
  /\ UNCHANGED <<provider, disk, override, loaded, calls>>

\* titleText()
TitleText ==
  /\ last' = Call("titleText", NoNode, "ok", << >>, 0, << >>)
  /\ UNCHANGED <<provider, disk, override, loaded, calls>>

\* The manifests of a workspace change on disk; the caller keeps the tree
\* items of the last answer.
DiskChange(root, layout) ==
  /\ layout \in LayoutsOf(root) \ {disk[root]}
  /\ disk' = [disk EXCEPT ![root] = layout]
  /\ last' = Call("diskChange", NoNode, "ok", last.result, 0, << >>)
  /\ UNCHANGED <<provider, override, loaded, calls>>

\* The tree items a caller can pass: those of the last answer and those the
\* provider's fields hold.
Elements ==
  (Range(last.result) \cup Range(items) \cup {rootPkg, activePackage}) \ {NoNode}

Next ==
  \/ \E element \in Elements \cup {NoNode}, fail \in Fails(workspaceRoot) :
       GetChildren(element, fail)
  \/ \E fail \in Fails(workspaceRoot) : GetFirst(fail)
  \/ \E element \in Elements : GetTreeItem(element)
  \/ RefreshGraph
  \/ \E file \in Files : SetActiveFile(file)
  \/ ClearGraph
  \/ StatusText
  \/ TitleText
  \/ \E root \in Roots, layout \in LayoutIds : DiskChange(root, layout)

Spec == Init /\ [][Next]_vars

----------------------------------------------------------------------------
(* The async methods step by step.  getChildren runs loadDependencyTree, *)
(* which has no await of its own, up to line 78 and is resumed later with  *)
(* the map that call returned; setActiveFile is suspended at the pkgUp of *)
(* line 196 and runs lines 197-211 when it is resumed.  Any other call can *)
(* run between the two halves.                                             *)

\* suspended calls at a time
MaxInFlight == 2

\* a suspended call: the method, its argument, and for getChildren the map
\* its loadDependencyTree returned (or that it threw); root is the
\* workspaceRoot at the time of the call
Suspended(op, element, file, its, threw) ==
  [op |-> op, element |-> element, file |-> file, its |-> its,
   threw |-> threw, root |-> workspaceRoot]

Without(s, i) == [j \in 1..(Len(s) - 1) |-> IF j < i THEN s[j] ELSE s[j + 1]]

OlderAll(nodes) == [i \in 1..Len(nodes) |-> Older(nodes[i])]

\* oldWorkspace taken when the call was made, before the await
oldWorkspaceBeforeAwait(call) == call.root

\* const oldWorkspace = this.workspaceRoot, in the resumed half
oldWorkspace(call) == workspaceRoot

\* getChildren(element) up to its await
GetChildrenLoad(element, fail) ==
  /\ Len(calls) < MaxInFlight
  /\ LET load == loadDependencyTree(workspaceRoot, fail)
         old(node) == IF load.assigned THEN Older(node) ELSE node
     IN  /\ items' = load.thisItems
         /\ loaded' = (loaded \/ ~load.threw)
         /\ rootPkg' = old(rootPkg)
         /\ activePackage' = old(activePackage)
         /\ calls' =
              Append([i \in 1..Len(calls) |->
                        [calls[i] EXCEPT !.element = old(@),
                                         !.its = IF load.assigned
                                                 THEN OlderAll(@) ELSE @]],
                     Suspended("getChildren", old(element), NoFile,
                               load.items, load.threw))
         /\ last' = Call("await", NoNode, "ok",
                         IF load.assigned THEN OlderAll(last.result)
                         ELSE last.result, 0, << >>)
  /\ UNCHANGED <<workspaceRoot, workspacePkgJson, workspaceTool, graph, disk,
                 override>>

\* getChildren resumed after its await
GetChildrenResume(i) ==
  /\ calls[i].op = "getChildren"
  /\ LET element == calls[i].element
         its == calls[i].its
         top == getRootItem(its)
         mapped == MapChildren(element, its)
         threw == calls[i].threw
                    \/ (element # NoNode /\ ~element.root
                          /\ Len(element.children) > 0 /\ mapped.threw)
         result ==
           CASE threw -> << >>
             [] element = NoNode /\ Len(its) = 0 -> << >>
             [] element = NoNode /\ Len(its) > 0 -> <<top.rootDependency>>
             [] element.root -> its
             [] Len(element.children) > 0 -> mapped.result
             [] OTHER -> << >>
         builtRoot == ~calls[i].threw /\ element = NoNode /\ Len(its) > 0
         expanding == ~calls[i].threw /\ element # NoNode /\ ~element.root
                        /\ Len(element.children) > 0
     IN  /\ workspaceTool' = IF builtRoot THEN top.workspaceTool ELSE workspaceTool
         /\ rootPkg' = IF builtRoot THEN top.rootDependency ELSE rootPkg
         /\ last' = Call("getChildren", element,
                         IF threw THEN "threw" ELSE "ok", result, 0,
                         IF expanding THEN mapped.notices ELSE << >>)
  /\ calls' = Without(calls, i)
  /\ UNCHANGED <<workspaceRoot, workspacePkgJson, graph, items, activePackage,
                 disk, override, loaded>>

\* setActiveFile(filename) up to its await
SetActiveFileLookup(file) ==
  /\ Len(calls) < MaxInFlight
  /\ calls' = Append(calls, Suspended("setActiveFile", NoNode, file, << >>, FALSE))
  /\ last' = Call("await", NoNode, "ok", last.result, 0, << >>)
  /\ UNCHANGED <<provider, disk, override, loaded>>

\* setActiveFile resumed after its await
SetActiveFileResume(i) ==
  /\ calls[i].op = "setActiveFile"
  /\ calls' = Without(calls, i)
  /\ LET file == calls[i].file
         packageForFilename == pkgUp(disk, file)
         root == getWorkspaceRoot(file)
     IN  IF packageForFilename = NoFile
         THEN /\ last' = Call("setActiveFile", NoNode, "threw", << >>, 0, << >>)
              /\ UNCHANGED <<provider, disk, override, loaded>>
         ELSE /\ workspaceRoot' = root
              /\ workspacePkgJson' = RootManifestName(root)
              /\ activePackage' = ItemsGet(items, readJsonName(packageForFilename))
              /\ last' = Call("setActiveFile", NoNode, "ok", << >>,
                              IF root = oldWorkspace(calls[i]) THEN 0 ELSE 1,
                              << >>)
              /\ UNCHANGED <<workspaceTool, rootPkg, graph, items, disk,
                             override, loaded>>

\* a provider whose workspaces stay as they are on disk
InitSuspending ==
  /\ Init
  /\ workspacePkgJson # Absent
  /\ override = Absent
  /\ disk = [root \in Roots |-> IF root = "r1" THEN "small" ELSE "cycle"]

\* the top-level call and the expansion of the root item, with every way the
\* load can go
NextSuspending ==
  \/ \E element \in {rootPkg, NoNode}, fail \in Fails(workspaceRoot) :
       GetChildrenLoad(element, fail)
  \/ \E i \in 1..Len(calls) : GetChildrenResume(i)
  \/ \E file \in Files : SetActiveFileLookup(file)
  \/ \E i \in 1..Len(calls) : SetActiveFileResume(i)
  \/ RefreshGraph
  \/ ClearGraph

SpecSuspending == InitSuspending /\ [][NextSuspending]_vars

\* overlapping setActiveFile calls on a provider whose loads complete
NextOverlap ==
  \/ GetChildrenLoad(NoNode, <<"none", 0>>)
  \/ \E i \in 1..Len(calls) : GetChildrenResume(i)
  \/ \E file \in Files : SetActiveFileLookup(file)
  \/ \E i \in 1..Len(calls) : SetActiveFileResume(i)
  \/ RefreshGraph
  \/ ClearGraph

SpecOverlap == InitSuspending /\ [][NextOverlap]_vars

----------------------------------------------------------------------------
(* Steps and helpers of the properties *)

Names(nodes) == [i \in 1..Len(nodes) |-> nodes[i].name]

\* a getChildren call whose loadDependencyTree throws
GetChildrenLoadFails ==
  \E element \in Elements \cup {NoNode}, fail \in Fails(workspaceRoot) :
    fail[1] # "none" /\ GetChildren(element, fail)

\* any query call
Query ==
  \/ \E element \in Elements \cup {NoNode}, fail \in Fails(workspaceRoot) :
       GetChildren(element, fail)
  \/ \E element \in Elements : GetTreeItem(element)
  \/ StatusText
  \/ TitleText

\* the last call was a getChildren call that completed
Answered == last.op = "getChildren" /\ last.outcome = "ok"

\* the packages on disk of the workspace the provider points at
OnDisk == getWorkspaces(disk, workspaceRoot)

\* the in-workspace dependencies on disk of the package of that name
DiskEdges(name) ==
  IF name \in DOMAIN getDependencyTree(OnDisk)
  THEN getDependencyTree(OnDisk)[name]
  ELSE << >>

\* the tree item a load builds for the i-th package on disk reflects the disk
ReflectsDisk(node) ==
  \E i \in 1..Len(OnDisk) :
    /\ node.name = OnDisk[i].name
    /\ node.fresh
    /\ ~node.root
    /\ Range(node.children) =
         (Range(OnDisk[i].deps) \cap Range(Names(OnDisk))) \ {node.name}

----------------------------------------------------------------------------
(* Properties *)

\* C1: a setActiveFile call whose file is owned by the stored workspaceRoot
\* fires no onDidChangeTreeData event; a call whose file is owned by another
\* root fires exactly one event and performs a full reload, so that this.items
\* is the index of the new root's packages when the call ends.
C1_RootChangeReloads ==
  [][\A file \in Files :
       (SetActiveFile(file) /\ last'.outcome = "ok") =>
          IF getWorkspaceRoot(file) = workspaceRoot
          THEN last'.fired = 0
          ELSE /\ last'.fired = 1
               /\ Names(items') = Names(getWorkspaces(disk, getWorkspaceRoot(file)))
               /\ \A i \in 1..Len(items') : items'[i].fresh]_vars

\* C2: getChildren(RootNode) returns one tree item per package of the load, in
\* enumeration order, and the length of the answer is the package count that
\* statusText() reports and that the root node's description shows.
C2_RootChildrenCount ==
  (Answered /\ last.element.root) =>
     /\ Names(last.result) = Names(OnDisk)
     /\ ~statusText.loading
     /\ statusText.count = Len(last.result)
     /\ last.element.desc = Len(last.result)

\* C3: for a node that is not the root, getChildren(node) returns, for each
\* name of the node's out-edge set and in the order of that set, what the
\* index holds under that name; a node without out-edges yields the empty
\* sequence; with app->lib-a, lib-a->lib-b, lib-b->{} the children of app are
\* [lib-a] and those of lib-b are [].
C3_ChildrenByName ==
  (Answered /\ last.element # NoNode /\ ~last.element.root) =>
     /\ last.result = [i \in 1..Len(last.element.children) |->
                         ItemsGet(items, last.element.children[i])]
     /\ Names(items) = <<"app", "lib-a", "lib-b">> /\ last.element.fresh =>
          /\ last.element.name = "app" => Names(last.result) = <<"lib-a">>
          /\ last.element.name = "lib-b" => last.result = << >>

\* C3 happens: a node with two out-edges, listed in another order than the
\* index holds them, was expanded.
C3_Witness ==
  /\ Answered
  /\ last.element.name = "app"
  /\ Names(last.result) = <<"lib-b", "lib-a">>
  /\ Names(items) = <<"lib-a", "app", "lib-b">>

\* C4: with A depending on B and B on A, expanding A includes B, and exactly
\* one circular-dependency notice naming A and B is shown by the expansion
\* that completes the cycle.
C4_CycleNotice ==
  \A b \in Range(last.result) :
    (/\ Answered
     /\ last.element # NoNode
     /\ ~last.element.root
     /\ b # NoNode
     /\ last.element.name \in Range(b.children)) =>
       /\ b.name \in Range(last.element.children)
       /\ last.notices = << <<last.element.name, b.name>> >>

\* C5: the top-level call getChildren(undefined) returns exactly one node,
\* the synthetic root node, when the load discovered at least one package, and
\* the empty sequence when it discovered none; it never returns two nodes.
C5_TopLevel ==
  (Answered /\ last.element = NoNode) =>
     /\ Len(last.result) <= 1
     /\ Len(OnDisk) > 0 =>
          /\ Len(last.result) = 1
          /\ last.result[1].root
          /\ last.result[1] # NoNode
          /\ last.result[1].name = RootManifestName(workspaceRoot)
     /\ Len(OnDisk) = 0 => last.result = << >>

\* C5 happens: a top-level call has answered with the root node of a
\* workspace that holds packages.
C5_Witness ==
  /\ Answered
  /\ last.element = NoNode
  /\ Len(last.result) = 1
  /\ last.result[1].root
  /\ Len(items) > 0

\* C6 as stated: after refreshGraph() the next getChildren call reflects the
\* package set and the dependency edges on disk, whatever changed on disk
\* since the previous load: the top level counts the packages on disk, the
\* root's children are the packages on disk, and the children of a package
\* node are its in-workspace dependencies on disk.
C6_ReflectsDiskAfterRefresh ==
  (Answered /\ last.afterRefresh) =>
     /\ last.element = NoNode =>
          \A i \in 1..Len(last.result) : last.result[i].desc = Len(OnDisk)
     /\ last.element.root => Names(last.result) = Names(OnDisk)
     /\ last.element # NoNode /\ ~last.element.root =>
          Names(last.result) = DiskEdges(last.element.name)

\* C6 as amended: the top-level answer counts the packages on disk, the root's
\* children are the packages on disk with their in-workspace dependencies on
\* disk, and every tree item any getChildren call returns is an item of the
\* load that call made, never one of an earlier load; the expansion of a
\* package node looks up the out-edge names stored in the node passed in.
C6_FreshAfterRefresh ==
  Answered =>
     /\ \A i \in 1..Len(last.result) :
          \/ last.result[i] = NoNode
          \/ last.result[i].root /\ last.result[i].fresh
          \/ ReflectsDisk(last.result[i])
     /\ last.element = NoNode =>
          /\ Len(last.result) = (IF Len(OnDisk) > 0 THEN 1 ELSE 0)
          /\ \A i \in 1..Len(last.result) : last.result[i].desc = Len(OnDisk)
     /\ last.element.root =>
          /\ Names(last.result) = Names(OnDisk)
          /\ \A i \in 1..Len(last.result) : ReflectsDisk(last.result[i])
     /\ last.element # NoNode /\ ~last.element.root =>
          /\ Len(last.result) = Len(last.element.children)
          /\ \A i \in 1..Len(last.result) :
               \/ last.result[i] = NoNode
               \/ last.result[i].name = last.element.children[i]

\* C6 happens: the root node was built, the package set on disk changed,
\* refreshGraph() was called and the next call expanded that root node.
C6_Witness ==
  /\ Answered
  /\ last.afterRefresh
  /\ last.element.root
  /\ ~last.element.fresh
  /\ last.element.desc # Len(last.result)
  /\ Len(last.result) > 0

\* C7: statusText() reports the loading state in every state before the first
\* load has completed, and the current root's name and the package count in
\* every state after it.
C7_LoadingUntilLoaded ==
  /\ ~loaded => statusText.loading
  /\ loaded =>
       /\ ~statusText.loading
       /\ statusText.name = RootManifestName(workspaceRoot)
       /\ statusText.count = Len(items)

\* C8: setActiveFile with a file that has no owning manifest yields absent
\* without throwing, leaves workspaceRoot, workspacePkgJson, activePackage and
\* items unchanged and fires no event.
C8_NoManifestIsAbsent ==
  [][\A file \in Files :
       (SetActiveFile(file) /\ pkgUp(disk, file) = NoFile) =>
          /\ last'.outcome = "ok"
          /\ last'.fired = 0
          /\ UNCHANGED <<workspaceRoot, workspacePkgJson, activePackage, items>>]_vars

\* C9: a query call (getChildren, getTreeItem, statusText, titleText) leaves
\* graph, items and workspaceRoot unchanged.
C9_QueriesReadOnly ==
  [][Query => UNCHANGED <<graph, items, workspaceRoot>>]_vars

\* C10: when loadDependencyTree throws at any step, this.items is afterwards
\* what it was before the call.
C10_FailedLoadKeepsIndex ==
  [][GetChildrenLoadFails => items' = items]_vars

\* C11: in setActiveFile, when the file's owning root differs from the stored
\* root, the reload for the new root happens before the lookup, so that the
\* activePackage stored is the node of the new root's index (absent when the
\* name is not in it); when the root is the same the existing index is used.
C11_ReloadBeforeLookup ==
  [][\A file \in Files :
       (SetActiveFile(file) /\ last'.outcome = "ok") =>
          LET root == getWorkspaceRoot(file)
              name == readJsonName(pkgUp(disk, file))
              index == loadDependencyTree(root, <<"none", 0>>).items
          IN  IF root = workspaceRoot
              THEN activePackage' = ItemsGet(items, name)
              ELSE /\ activePackage'.name = ItemsGet(index, name).name
                   /\ activePackage'.children = ItemsGet(index, name).children
                   /\ activePackage'.tool = ItemsGet(index, name).tool]_vars

\* C12: when getChildren(node) is called on a node that is not the root and
\* one of its out-edge names is no key of the index used for the query, that
\* name is omitted: every element of the answer is a tree item of the index,
\* and the call does not throw.
C12_MissingNameOmitted ==
  (/\ last.op = "getChildren"
   /\ last.element # NoNode
   /\ ~last.element.root
   /\ \E i \in 1..Len(last.element.children) :
        ItemsGet(items, last.element.children[i]) = NoNode
   /\ Names(items) = Names(OnDisk)) =>
     /\ last.outcome = "ok"
     /\ \A i \in 1..Len(last.result) : last.result[i] \in Range(items)

\* the workspace-tool command of a root: the override, else the detected
\* tool, else the fallback
ToolOf(root) == OrElse(OrElse(override, getWorkspaceTool(root)), "npm run")

\* C15: every tree item built by a load (each package item and the root item)
\* and the stored workspaceTool carry the override when it is set, otherwise
\* the detected tool, otherwise the fallback command; the command is never
\* absent.
C15_ToolNeverAbsent ==
  (Answered /\ last.element = NoNode /\ Len(last.result) > 0) =>
     /\ workspaceTool = ToolOf(workspaceRoot)
     /\ rootPkg.tool = ToolOf(workspaceRoot)
     /\ \A node \in Range(items) : node.tool = ToolOf(workspaceRoot)

\* C16: activePackage is absent or the very tree item the current index
\* holds under its package name.
C16_ActivePackageInIndex ==
  activePackage # NoNode => ItemsGet(items, activePackage.name) = activePackage

\* the workspace root whose manifest carries the name
RootNamed(name) == CHOOSE root \in Roots : RootManifestName(root) = name

\* C17: when statusText() is not the loading text, the package count it
\* reports is the number of packages of the workspace whose name it reports,
\* also right after setActiveFile moved to another root and right after
\* clearGraph.
C17_StatusOfOneRoot ==
  (/\ loaded
   /\ last.outcome = "ok"
   /\ last.op \in {"getChildren", "setActiveFile", "clearGraph"}
   /\ ~statusText.loading) =>
     statusText.count = Len(getWorkspaces(disk, RootNamed(statusText.name)))

\* C19: getFirst() returns the first package item in enumeration order when
\* the load discovered at least one package, and completes with an absent
\* result, without throwing, when the load discovered none.
C19_GetFirstOrAbsent ==
  [][GetFirst(<<"none", 0>>) =>
       /\ last'.outcome = "ok"
       /\ last'.result =
            IF Len(OnDisk) > 0 THEN <<items'[1]>> ELSE << >>
       /\ Len(OnDisk) > 0 => last'.result[1].name = OnDisk[1].name]_vars

\* a map that a completed load of some workspace root builds
Complete(its) ==
  \E root \in Roots : Names(its) = Names(getWorkspaces(disk, root))

\* C13: under any interleaving of getChildren, setActiveFile, refreshGraph
\* and clearGraph at their awaits, the shared index is never partially
\* built: it is empty or the complete item set of one load, and a suspended
\* getChildren call answers from one complete map.
C13_IndexNeverPartial ==
  /\ items = << >> \/ Complete(items)
  /\ \A i \in 1..Len(calls) :
       (calls[i].op = "getChildren" /\ ~calls[i].threw) => Complete(calls[i].its)

\* a suspended setActiveFile call is resumed
Resumed == \E i \in 1..Len(calls) : SetActiveFileResume(i)

\* C18: when setActiveFile calls overlap, each suspended at its lookup of the
\* nearest manifest and resumed in any order, the number of change events
\* they fire equals the number of times workspaceRoot changes value: every
\* resumed call fires one event when it gives workspaceRoot another value and
\* none when it does not.
C18_EventsAreRootChanges ==
  [][Resumed => (last'.fired = IF workspaceRoot' # workspaceRoot THEN 1 ELSE 0)]_vars

\* a resumed call has changed the root and fired while a call made under
\* the former root, for a file of the present root, is still suspended
C18_Witness ==
  /\ last.op = "setActiveFile"
  /\ last.fired = 1
  /\ \E i \in 1..Len(calls) :
       /\ calls[i].op = "setActiveFile"
       /\ calls[i].root # workspaceRoot
       /\ getWorkspaceRoot(calls[i].file) = workspaceRoot

====
